---------------------------- MODULE Spec2Model ----------------------------
(***************************************************************************)
(* Model of update_imports.py: a script that walks ROOT_DIR and rewrites   *)
(* import specifiers in source files by literal string replacement.        *)
(*                                                                         *)
(* Text (file contents, file names, paths) is modelled as sequences of     *)
(* one-character strings, so that str.replace, str.endswith and the `in`   *)
(* substring test work on characters as they do in Python.                 *)
(*                                                                         *)
(* Two specifications:                                                     *)
(*   Spec         the whole script: os.walk over a directory tree, the     *)
(*                filters of the loop, and update_file as one step per     *)
(*                file, with every I/O outcome;                            *)
(*   SpecRewrite  one call of update_file on one file, statement by        *)
(*                statement (one step per iteration of the rule loop),     *)
(*                over file contents built from pieces of the patterns.    *)
(***************************************************************************)
EXTENDS Integers, Sequences, FiniteSets

VARIABLES
    \* ---- the file system and the walk (Spec) ----
    rootExists,   \* whether ROOT_DIR can be enumerated
    fs,           \* file path -> content on disk
    orig,         \* fs as it was before the run (history)
    stack,        \* directories os.walk has still to yield, next first
    cur,          \* the directory whose files the loop body iterates, or NoDir
    files,        \* files of cur the inner loop has not reached yet
    out,          \* lines printed to standard output
    called,       \* paths passed to update_file (history)
    opened_r,     \* paths opened with mode 'r' (history)
    opened_w,     \* paths opened with mode 'w' (history)
    failed,       \* paths whose update_file raised inside the try (history)
    pc,           \* "walk" | "done"
    exit,         \* "running" | "normal" | "abort"
    \* ---- one call of update_file (SpecRewrite) ----
    disk,         \* the content of the file on disk
    content,      \* local: content
    new_content,  \* local: new_content
    k,            \* number of REPLACEMENTS items the for loop has consumed
    upc,          \* "idle" | "read" | "loop" | "done"
    wrote         \* whether the file was opened for writing

walkvars == <<rootExists, fs, orig, stack, cur, files, out, called,
              opened_r, opened_w, failed, pc, exit>>
filevars == <<disk, content, new_content, k, upc, wrote>>
vars == <<walkvars, filevars>>

-----------------------------------------------------------------------------
(* Characters and literals of the source *)

SQ == "'"
DQ == "\""

platform_core == <<"@","p","l","a","t","f","o","r","m","/","c","o","r","e">>
platform_ui_kit == <<"@","p","l","a","t","f","o","r","m","/","u","i","-","k","i","t">>
platform_ui == <<"@","p","l","a","t","f","o","r","m","/","u","i">>
platform_firebase == <<"@","p","l","a","t","f","o","r","m","/","f","i","r","e","b","a","s","e">>
platform_firebase_admin == <<"@","p","l","a","t","f","o","r","m","/","f","i","r","e","b","a","s","e","-","a","d","m","i","n">>
platform_types == <<"@","p","l","a","t","f","o","r","m","/","t","y","p","e","s">>
modules == <<"@","m","o","d","u","l","e","s","/">>

lib_core == <<"@","/","l","i","b","/","c","o","r","e">>
super_platform_ui == <<"@","s","u","p","e","r","-","p","l","a","t","f","o","r","m","/","u","i">>
super_platform_ui_base == <<"@","s","u","p","e","r","-","p","l","a","t","f","o","r","m","/","u","i","-","b","a","s","e">>
lib_firebase == <<"@","/","l","i","b","/","f","i","r","e","b","a","s","e">>
lib_firebase_admin == <<"@","/","l","i","b","/","f","i","r","e","b","a","s","e","-","a","d","m","i","n">>
lib_types == <<"@","/","l","i","b","/","t","y","p","e","s">>
slash_modules == <<"@","/","m","o","d","u","l","e","s","/">>

ROOT_DIR == <<"/","U","s","e","r","s","/","j","u","k","k","r","i","t","s","u","w","a","n","n","a","k","u","m","/","S","u","p","e","r","-","P","l","a","t","f","o","r","m">>

node_modules == <<"n","o","d","e","_","m","o","d","u","l","e","s">>
dot_git == <<".","g","i","t">>
dot_next == <<".","n","e","x","t">>

\* The tuple given to file.endswith
Extensions == { <<".","t","s">>, <<".","t","s","x">>, <<".","j","s">>,
                <<".","j","s","x">>, <<".","j","s","o","n">> }

package_json == <<"p","a","c","k","a","g","e",".","j","s","o","n">>
package_lock_json == <<"p","a","c","k","a","g","e","-","l","o","c","k",".","j","s","o","n">>


\* A specifier between two quote characters q: q + body + q
Quoted(q, body) == <<q>> \o body \o <<q>>
\* A specifier after an opening quote only: q + body
Opened(q, body) == <<q>> \o body

\* Mutant: the ui patterns and substitutes lose their closing quote.
REPLACEMENTS_ui_unterminated ==
    << <<Quoted(SQ, platform_core),           Quoted(SQ, lib_core)>>,
       <<Quoted(DQ, platform_core),           Quoted(DQ, lib_core)>>,
       <<Quoted(SQ, platform_ui_kit),         Quoted(SQ, super_platform_ui)>>,
       <<Quoted(DQ, platform_ui_kit),         Quoted(DQ, super_platform_ui)>>,
       <<Opened(SQ, platform_ui),             Opened(SQ, super_platform_ui_base)>>,
       <<Opened(DQ, platform_ui),             Opened(DQ, super_platform_ui_base)>>,
       <<Quoted(SQ, platform_firebase),       Quoted(SQ, lib_firebase)>>,
       <<Quoted(DQ, platform_firebase),       Quoted(DQ, lib_firebase)>>,
       <<Quoted(SQ, platform_firebase_admin), Quoted(SQ, lib_firebase_admin)>>,
       <<Quoted(DQ, platform_firebase_admin), Quoted(DQ, lib_firebase_admin)>>,
       <<Quoted(SQ, platform_types),          Quoted(SQ, lib_types)>>,
       <<Quoted(DQ, platform_types),          Quoted(DQ, lib_types)>>,
       <<Opened(SQ, modules),                 Opened(SQ, slash_modules)>>,
       <<Opened(DQ, modules),                 Opened(DQ, slash_modules)>> >>

\* The dict REPLACEMENTS in insertion order (the order .items() iterates in):
\* item r is <<old, new>>.
REPLACEMENTS ==
    << <<Quoted(SQ, platform_core),           Quoted(SQ, lib_core)>>,
       <<Quoted(DQ, platform_core),           Quoted(DQ, lib_core)>>,
       <<Quoted(SQ, platform_ui_kit),         Quoted(SQ, super_platform_ui)>>,
       <<Quoted(DQ, platform_ui_kit),         Quoted(DQ, super_platform_ui)>>,
       <<Quoted(SQ, platform_ui),             Quoted(SQ, super_platform_ui_base)>>,
       <<Quoted(DQ, platform_ui),             Quoted(DQ, super_platform_ui_base)>>,
       <<Quoted(SQ, platform_firebase),       Quoted(SQ, lib_firebase)>>,
       <<Quoted(DQ, platform_firebase),       Quoted(DQ, lib_firebase)>>,
       <<Quoted(SQ, platform_firebase_admin), Quoted(SQ, lib_firebase_admin)>>,
       <<Quoted(DQ, platform_firebase_admin), Quoted(DQ, lib_firebase_admin)>>,
       <<Quoted(SQ, platform_types),          Quoted(SQ, lib_types)>>,
       <<Quoted(DQ, platform_types),          Quoted(DQ, lib_types)>>,
       <<Opened(SQ, modules),                 Opened(SQ, slash_modules)>>,
       <<Opened(DQ, modules),                 Opened(DQ, slash_modules)>> >>

-----------------------------------------------------------------------------
(* str methods *)

\* s[i:i+len(old)] == old  (i counts from 1)
MatchAt(s, old, i) ==
    /\ i + Len(old) - 1 <= Len(s)
    /\ s[i] = old[1]
    /\ SubSeq(s, i, i + Len(old) - 1) = old

\* s.find(old, i): the least position >= i where old occurs in s, 0 if none
Find(s, old, i) ==
    LET found == { j \in i..(Len(s) - Len(old) + 1) : MatchAt(s, old, j) }
    IN  IF found = {} THEN 0 ELSE CHOOSE j \in found : \A x \in found : j <= x

\* s.replace(old, new) from position i on: every occurrence of old found
\* scanning left to right, the scan resuming after each occurrence replaced
RECURSIVE ReplaceFrom(_, _, _, _)
ReplaceFrom(s, old, new, i) ==
    LET j == Find(s, old, i)
    IN  IF j = 0 THEN SubSeq(s, i, Len(s))
        ELSE SubSeq(s, i, j - 1) \o new \o ReplaceFrom(s, old, new, j + Len(old))

\* s.replace(old, new), old not empty
replace(s, old, new) == ReplaceFrom(s, old, new, 1)

\* old in s
Contains(s, old) == Find(s, old, 1) # 0

\* s.endswith(suffix)
endswith(s, suffix) ==
    /\ Len(suffix) <= Len(s)
    /\ SubSeq(s, Len(s) - Len(suffix) + 1, Len(s)) = suffix

-----------------------------------------------------------------------------
(* update_file: the rule loop *)

\* Mutant: the loop stops one item short of the end of the table.
NumRules_one_short == Len(REPLACEMENTS) - 1

\* The number of items the for loop iterates over
NumRules == Len(REPLACEMENTS)

\* Mutant: each rule is applied to the original content, not to the buffer.
RewriteStep_on_original(buf, r) ==
    replace(content, REPLACEMENTS[r][1], REPLACEMENTS[r][2])

\* The loop body for item r: new_content = new_content.replace(old, new)
RewriteStep(buf, r) == replace(buf, REPLACEMENTS[r][1], REPLACEMENTS[r][2])

\* The for loop from item r on, on buffer buf
RECURSIVE RewriteFrom(_, _)
RewriteFrom(buf, r) ==
    IF r > NumRules THEN buf ELSE RewriteFrom(RewriteStep(buf, r), r + 1)

\* new_content after the loop, for a file whose content is c
NewContent(c) == RewriteFrom(c, 1)

-----------------------------------------------------------------------------
(* One call of update_file, statement by statement (SpecRewrite) *)

kit == <<"-","k","i","t">>

\* The longest file content considered, in pieces
MaxFrags == 4

\* The pieces file contents are built from: a quote character alone (which
\* closes a specifier, and opens the next one when they abut), a specifier
\* with its opening quote, and the tail that makes ui into ui-kit
Fragments ==
    { <<SQ>>, <<DQ>>, Opened(SQ, platform_ui), Opened(DQ, platform_ui), kit,
      Opened(SQ, platform_firebase), Opened(DQ, modules) }

RECURSIVE Concat(_)
Concat(fr) == IF fr = <<>> THEN <<>> ELSE Head(fr) \o Concat(Tail(fr))

\* Every content made of at most MaxFrags pieces
Contents ==
    { Concat(fr) : fr \in UNION { [1..n -> Fragments] : n \in 0..MaxFrags } }

NoDir == ""

\* Spec's variables at rest while one call of update_file is followed
WalkIdle ==
    /\ rootExists = TRUE
    /\ fs = <<>>
    /\ orig = <<>>
    /\ stack = <<>>
    /\ cur = NoDir
    /\ files = {}
    /\ out = <<>>
    /\ called = {}
    /\ opened_r = {}
    /\ opened_w = {}
    /\ failed = {}
    /\ pc = "done"
    /\ exit = "normal"

InitRewrite ==
    /\ WalkIdle
    /\ disk \in Contents
    /\ content = <<>>
    /\ new_content = <<>>
    /\ k = 0
    /\ upc = "read"
    /\ wrote = FALSE

\* with open(filepath, 'r') as f: content = f.read(); new_content = content
URead ==
    /\ upc = "read"
    /\ content' = disk
    /\ new_content' = disk
    /\ k' = 0
    /\ upc' = "loop"
    /\ UNCHANGED <<disk, wrote, walkvars>>

\* one iteration of: for old, new in REPLACEMENTS.items()
ULoop ==
    /\ upc = "loop"
    /\ k < NumRules
    /\ new_content' = RewriteStep(new_content, k + 1)
    /\ k' = k + 1
    /\ UNCHANGED <<disk, content, upc, wrote, walkvars>>

\* if content != new_content: open(filepath, 'w'), f.write(new_content)
UWrite ==
    /\ upc = "loop"
    /\ k >= NumRules
    /\ content # new_content
    /\ disk' = new_content
    /\ wrote' = TRUE
    /\ upc' = "done"
    /\ UNCHANGED <<content, new_content, k, walkvars>>

\* content == new_content: the function returns
UKeep ==
    /\ upc = "loop"
    /\ k >= NumRules
    /\ content = new_content
    /\ upc' = "done"
    /\ UNCHANGED <<disk, content, new_content, k, wrote, walkvars>>

NextRewrite == URead \/ ULoop \/ UWrite \/ UKeep

SpecRewrite == InitRewrite /\ [][NextRewrite]_vars

-----------------------------------------------------------------------------
(* The directory tree under ROOT_DIR *)

\* os.path.join(a, b), b relative
join(a, b) == a \o <<"/">> \o b

\* Directories and files are named in the state by short handles; DirPath,
\* FileName and FilePath give the text the script sees for them.
AllDirs ==
    { "ROOT", "src", "src/.next", "src/.git", "node_modules",
      "node_modules/pkg", ".github" }

AllFiles ==
    { "a.ts", "package.json", "b.md", "src/c.tsx", "src/package-lock.json",
      "src/.next/f.jsx", "src/.git/g.json", "node_modules/pkg/d.js",
      ".github/e.json" }

\* The directory a directory lies in
Parent(d) ==
    CASE d = "src" -> "ROOT"
      [] d = "src/.next" -> "src"
      [] d = "src/.git" -> "src"
      [] d = "node_modules" -> "ROOT"
      [] d = "node_modules/pkg" -> "node_modules"
      [] d = ".github" -> "ROOT"

\* The name of a directory in its parent
DirName(d) ==
    CASE d = "src" -> <<"s","r","c">>
      [] d = "src/.next" -> dot_next
      [] d = "src/.git" -> dot_git
      [] d = "node_modules" -> node_modules
      [] d = "node_modules/pkg" -> <<"p","k","g">>
      [] d = ".github" -> <<".","g","i","t","h","u","b">>

\* The path os.walk yields for a directory: top for the root,
\* os.path.join(parent path, name) below it
RECURSIVE DirPath(_)
DirPath(d) ==
    IF d = "ROOT" THEN ROOT_DIR ELSE join(DirPath(Parent(d)), DirName(d))

\* The directory a file lies in
FileDir(f) ==
    CASE f \in { "a.ts", "package.json", "b.md" } -> "ROOT"
      [] f \in { "src/c.tsx", "src/package-lock.json" } -> "src"
      [] f = "src/.next/f.jsx" -> "src/.next"
      [] f = "src/.git/g.json" -> "src/.git"
      [] f = "node_modules/pkg/d.js" -> "node_modules/pkg"
      [] f = ".github/e.json" -> ".github"

\* The name of a file in its directory
FileName(f) ==
    CASE f = "a.ts" -> <<"a",".","t","s">>
      [] f = "package.json" -> package_json
      [] f = "b.md" -> <<"b",".","m","d">>
      [] f = "src/c.tsx" -> <<"c",".","t","s","x">>
      [] f = "src/package-lock.json" -> package_lock_json
      [] f = "src/.next/f.jsx" -> <<"f",".","j","s","x">>
      [] f = "src/.git/g.json" -> <<"g",".","j","s","o","n">>
      [] f = "node_modules/pkg/d.js" -> <<"d",".","j","s">>
      [] f = ".github/e.json" -> <<"e",".","j","s","o","n">>

\* os.path.join(root, file)
FilePath(f) == join(DirPath(FileDir(f)), FileName(f))

\* What os.scandir(d) reports as directories, and as files
SubDirs(d) == { x \in AllDirs \ {"ROOT"} : Parent(x) = d }
FilesIn(d) == { f \in AllFiles : FileDir(f) = d }

\* What a file may hold before the run: no pattern, or an import of
\* '@platform/core'
FileContents == { <<"x">>, Quoted(SQ, platform_core) }

-----------------------------------------------------------------------------
(* The script: the walk loop, with update_file as one step *)

RECURSIVE Basename(_)
Basename(path) ==
    IF path = <<>> \/ path[Len(path)] = "/" THEN <<>>
    ELSE Append(Basename(SubSeq(path, 1, Len(path) - 1)), path[Len(path)])

\* Mutant: a directory is skipped when its own name is an excluded name.
Excluded_by_own_name(root) ==
    Basename(root) \in { node_modules, dot_git, dot_next }

\* 'node_modules' in root or '.git' in root or '.next' in root
Excluded(root) ==
    \/ Contains(root, node_modules)
    \/ Contains(root, dot_git)
    \/ Contains(root, dot_next)

\* file.endswith(('.ts', '.tsx', '.js', '.jsx', '.json'))
HasAllowedExtension(file) == \E e \in Extensions : endswith(file, e)

\* Mutant: package.json and package-lock.json are not skipped.
Selected_manifests_too(file) == HasAllowedExtension(file)

\* The inner loop calls update_file for this file name
Selected(file) ==
    /\ HasAllowedExtension(file)
    /\ ~(file = package_json \/ file = package_lock_json)

\* Mutant: the file is written whether or not the buffer differs.
Changed_always(c, n) == TRUE

\* if content != new_content
Changed(c, n) == c # n

\* print(f"Updated: {filepath}")
UpdatedLine(f) == [kind |-> "Updated", file |-> f]

\* Mutant: the except clause prints nothing.
ErrorLines_silent(f) == <<>>

\* What the except clause prints: print(f"Error reading {filepath}: {e}")
ErrorLines(f) == << [kind |-> "Error reading", file |-> f] >>

\* The tests of the loop and the rule loop of update_file, evaluated once
\* for each directory, each file and each content of the tree
SkippedDirs == { d \in AllDirs : Excluded(DirPath(d)) }
SelectedFiles == { f \in AllFiles : Selected(FileName(f)) }
Rewritten == [ c \in FileContents |-> NewContent(c) ]

\* update_file's variables at rest while the walk is followed
FileIdle ==
    /\ disk = <<>>
    /\ content = <<>>
    /\ new_content = <<>>
    /\ k = 0
    /\ upc = "idle"
    /\ wrote = FALSE

Init ==
    /\ FileIdle
    /\ rootExists \in BOOLEAN
    /\ fs \in (IF rootExists THEN [AllFiles -> FileContents] ELSE { <<>> })
    /\ orig = fs
    /\ stack = << {"ROOT"} >>
    /\ cur = NoDir
    /\ files = {}
    /\ out = <<>>
    /\ called = {}
    /\ opened_r = {}
    /\ opened_w = {}
    /\ failed = {}
    /\ pc = "walk"
    /\ exit = "running"

NonEmpty(frame) == frame # {}

\* os.walk after yielding d, top-down: the subdirectories of d come next, in
\* the order os.scandir listed them (any order), then the directories that
\* were already pending
StackAfter(d) ==
    SelectSeq(<< SubDirs(d), Head(stack) \ {d} >> \o Tail(stack), NonEmpty)

\* os.walk(ROOT_DIR) when ROOT_DIR cannot be enumerated: scandir's error goes
\* to onerror, which is None, the generator ends and so does the script
WalkRootMissing ==
    /\ pc = "walk"
    /\ ~rootExists
    /\ pc' = "done"
    /\ exit' = "normal"
    /\ stack' = <<>>
    /\ UNCHANGED <<rootExists, fs, orig, cur, files, out, called, opened_r,
                   opened_w, failed, filevars>>

\* os.walk yields a directory whose path holds an excluded name: continue
WalkSkipDir ==
    /\ pc = "walk" /\ rootExists /\ cur = NoDir /\ stack # <<>>
    /\ \E d \in Head(stack) :
        /\ d \in SkippedDirs
        /\ stack' = StackAfter(d)
    /\ UNCHANGED <<rootExists, fs, orig, cur, files, out, called, opened_r,
                   opened_w, failed, pc, exit, filevars>>

\* os.walk yields a directory the loop body iterates the files of
WalkEnterDir ==
    /\ pc = "walk" /\ rootExists /\ cur = NoDir /\ stack # <<>>
    /\ \E d \in Head(stack) :
        /\ d \notin SkippedDirs
        /\ stack' = StackAfter(d)
        /\ cur' = d
        /\ files' = FilesIn(d)
    /\ UNCHANGED <<rootExists, fs, orig, out, called, opened_r, opened_w,
                   failed, pc, exit, filevars>>

\* for file in files: the extension or the name rules the file out
SkipFile ==
    /\ pc = "walk" /\ cur # NoDir
    /\ \E f \in files :
        /\ f \notin SelectedFiles
        /\ files' = files \ {f}
    /\ UNCHANGED <<rootExists, fs, orig, stack, cur, out, called, opened_r,
                   opened_w, failed, pc, exit, filevars>>

\* update_file(f) called: the bookkeeping every outcome shares
Called(f) ==
    /\ files' = files \ {f}
    /\ called' = called \cup {f}
    /\ opened_r' = opened_r \cup {f}

\* open(filepath, 'r') or f.read() raises: the except clause prints
ReadError(f) ==
    /\ Called(f)
    /\ failed' = failed \cup {f}
    /\ out' = out \o ErrorLines(f)
    /\ UNCHANGED <<fs, opened_w>>

\* the buffer equals the content: nothing is written, nothing printed
Unchanged(f, buf) ==
    /\ ~Changed(fs[f], buf)
    /\ Called(f)
    /\ UNCHANGED <<fs, opened_w, failed, out>>

\* the buffer differs: it is written over the file, 'Updated:' is printed
Written(f, buf) ==
    /\ Changed(fs[f], buf)
    /\ Called(f)
    /\ opened_w' = opened_w \cup {f}
    /\ fs' = [fs EXCEPT ![f] = buf]
    /\ out' = Append(out, UpdatedLine(f))
    /\ UNCHANGED failed

\* the buffer differs and open(filepath, 'w') raises (the file is not
\* writable): nothing was truncated, the except clause prints
OpenWriteError(f, buf) ==
    /\ Changed(fs[f], buf)
    /\ Called(f)
    /\ opened_w' = opened_w \cup {f}
    /\ failed' = failed \cup {f}
    /\ out' = out \o ErrorLines(f)
    /\ UNCHANGED fs

\* the buffer differs, open(filepath, 'w') truncated the file, then f.write
\* or the flush on close raises (the disk is full): the file holds what
\* reached the disk, a proper prefix of the buffer; the except clause prints
WriteError(f, buf) ==
    /\ Changed(fs[f], buf)
    /\ Called(f)
    /\ \E n \in 0..(Len(buf) - 1) :
        fs' = [fs EXCEPT ![f] = SubSeq(buf, 1, n)]
    /\ opened_w' = opened_w \cup {f}
    /\ failed' = failed \cup {f}
    /\ out' = out \o ErrorLines(f)

\* for file in files: update_file(os.path.join(root, file)), with each way
\* the call can go
UpdateFile ==
    /\ pc = "walk" /\ cur # NoDir
    /\ \E f \in files :
        /\ f \in SelectedFiles
        /\ LET buf == Rewritten[fs[f]]
           IN  \/ ReadError(f)
               \/ Unchanged(f, buf)
               \/ Written(f, buf)
               \/ OpenWriteError(f, buf)
               \/ WriteError(f, buf)
    /\ UNCHANGED <<rootExists, orig, stack, cur, pc, exit, filevars>>

\* the inner for loop is exhausted: back to os.walk
EndDir ==
    /\ pc = "walk" /\ cur # NoDir /\ files = {}
    /\ cur' = NoDir
    /\ UNCHANGED <<rootExists, fs, orig, stack, files, out, called, opened_r,
                   opened_w, failed, pc, exit, filevars>>

\* os.walk is exhausted: the script ends
Finish ==
    /\ pc = "walk" /\ rootExists /\ cur = NoDir /\ stack = <<>>
    /\ pc' = "done"
    /\ exit' = "normal"
    /\ UNCHANGED <<rootExists, fs, orig, stack, cur, files, out, called,
                   opened_r, opened_w, failed, filevars>>

Next ==
    \/ WalkRootMissing
    \/ WalkSkipDir
    \/ WalkEnterDir
    \/ SkipFile
    \/ UpdateFile
    \/ EndDir
    \/ Finish

Spec == Init /\ [][Next]_vars

-----------------------------------------------------------------------------
(* Claims about the rewriting of one file (SpecRewrite) *)

\* The occurrences of REPLACEMENTS keys in s: <<position, item>>
Occurrences(s) ==
    { o \in (1..Len(s)) \X (1..Len(REPLACEMENTS)) :
        MatchAt(s, REPLACEMENTS[o[2]][1], o[1]) }

\* s holds an occurrence of some key
HasKey(s) == \E r \in 1..Len(REPLACEMENTS) : Contains(s, REPLACEMENTS[r][1])

\* The last position of occurrence o
OccEnd(o) == o[1] + Len(REPLACEMENTS[o[2]][1]) - 1

\* No two occurrences of keys in s have a character in common
NoSharedCharacter(s) ==
    \A o1, o2 \in Occurrences(s) :
        (o1 # o2 /\ o1[1] <= o2[1]) => OccEnd(o1) < o2[1]

\* A second call right after the first finds nothing to change
SecondRunChangesNothing == ~HasKey(disk) /\ NewContent(disk) = disk

\* C1 as claimed: after an error-free update_file, whatever the original
\* content, the content on disk holds no key and a second run changes nothing.
C1_IdempotentOnEveryContent == upc = "done" => SecondRunChangesNothing

\* C1 as amended: when no two occurrences of keys in the original content
\* share a character (a quote), the content on disk after an error-free
\* update_file holds no key, and a second run changes nothing.
C1_IdempotentWithoutSharedQuotes ==
    (upc = "done" /\ NoSharedCharacter(content)) => SecondRunChangesNothing

\* C1's case: a file with two or more occurrences, none sharing a character,
\* was rewritten.
C1_Witness ==
    /\ upc = "done"
    /\ wrote
    /\ NoSharedCharacter(content)
    /\ Cardinality(Occurrences(content)) >= 2

\* The specifier bodies in the order the claim lists the rules
ClaimedBodies ==
    << <<platform_core, lib_core>>,
       <<platform_ui_kit, super_platform_ui>>,
       <<platform_ui, super_platform_ui_base>>,
       <<platform_firebase, lib_firebase>>,
       <<platform_firebase_admin, lib_firebase_admin>>,
       <<platform_types, lib_types>>,
       <<modules, slash_modules>> >>

\* Rule r of the claimed order, side 1 (pattern) or 2 (substitute): the
\* single-quoted form before the double-quoted form, the @modules/ rules
\* without a closing quote
ClaimedRule(r, side) ==
    LET q == IF r % 2 = 1 THEN SQ ELSE DQ
        b == ClaimedBodies[(r + 1) \div 2][side]
    IN  IF (r + 1) \div 2 = 7 THEN Opened(q, b) ELSE Quoted(q, b)

\* C8: the loop starts from the original content, each iteration replaces
\* the occurrences of the next rule of the claimed order in the output of the
\* previous iteration, and the buffer compared and written is the one all 14
\* rules have been applied to.
C8_SequentialInTableOrder ==
    /\ [](upc = "loop" /\ k = 0 => new_content = content)
    /\ [][(upc = "loop" /\ k' = k + 1) =>
            new_content' = replace(new_content, ClaimedRule(k', 1),
                                   ClaimedRule(k', 2))]_vars
    /\ [](upc = "done" =>
            /\ k = 14
            /\ (wrote => disk = new_content)
            /\ (wrote <=> content # new_content))

\* C8's case: a file in which a ui-kit rule and a @modules/ rule both applied
\* was written.
C8_Witness ==
    /\ upc = "done"
    /\ wrote
    /\ Contains(content, Quoted(SQ, platform_ui_kit))
    /\ Contains(content, Opened(DQ, modules))
    /\ Contains(disk, Quoted(SQ, super_platform_ui))
    /\ Contains(disk, Opened(DQ, slash_modules))

\* The items in the order: core, ui, ui-kit, then the rest
UiFirst == <<1, 2, 5, 6, 3, 4, 7, 8, 9, 10, 11, 12, 13, 14>>

RECURSIVE RewriteInOrder(_, _, _)
RewriteInOrder(buf, order, n) ==
    IF n > Len(order) THEN buf
    ELSE RewriteInOrder(RewriteStep(buf, order[n]), order, n + 1)

\* The number of occurrences of old that s.replace(old, _) replaces
RECURSIVE CountFrom(_, _, _)
CountFrom(s, old, i) ==
    LET j == Find(s, old, i)
    IN  IF j = 0 THEN 0 ELSE 1 + CountFrom(s, old, j + Len(old))

-----------------------------------------------------------------------------
(* Claims about the whole run (Spec) *)

\* The names between the slashes of a path
Components(path) ==
    { SubSeq(path, a, b) :
        <<a, b>> \in { ab \in (1..Len(path)) \X (1..Len(path)) :
            /\ ab[1] <= ab[2]
            /\ (ab[1] = 1 \/ path[ab[1] - 1] = "/")
            /\ (ab[2] = Len(path) \/ path[ab[2] + 1] = "/")
            /\ \A i \in ab[1]..ab[2] : path[i] # "/" } }

ExcludedNames == { node_modules, dot_git, dot_next }

\* The files with a directory named exactly node_modules, .git or .next on
\* their path
FilesBelowExcludedName ==
    { f \in AllFiles :
        Components(DirPath(FileDir(f))) \cap ExcludedNames # {} }

\* The files whose name does not end in an allowed extension, or is
\* package.json or package-lock.json
FilesNotForRewriting ==
    { f \in AllFiles :
        \/ \A e \in Extensions : ~endswith(FileName(f), e)
        \/ FileName(f) \in { package_json, package_lock_json } }

\* The contents a file may hold that hold a pattern
PatternContents == { c \in FileContents : HasKey(c) }

\* The number of lines of a kind printed about a file
Lines(kind, f) ==
    Cardinality({ i \in DOMAIN out : out[i] = [kind |-> kind, file |-> f] })

\* C2: a file whose name does not end in an allowed extension, or is named
\* package.json or package-lock.json, is never passed to update_file, and its
\* content stays what it was before the run.
C2_Selectivity ==
    rootExists =>
        \A f \in FilesNotForRewriting : f \notin called /\ fs[f] = orig[f]

\* C2's case: the run is over and wrote a.ts, while package.json,
\* package-lock.json and b.md each hold a pattern.
C2_Witness ==
    /\ pc = "done"
    /\ rootExists
    /\ "a.ts" \in opened_w
    /\ \A f \in FilesNotForRewriting : orig[f] \in PatternContents

\* C3: a file below a directory named node_modules, .git or .next, at any
\* depth, is never opened, for reading or for writing, and keeps its content.
C3_Pruning ==
    rootExists =>
        \A f \in FilesBelowExcludedName :
            /\ f \notin called
            /\ f \notin opened_r
            /\ f \notin opened_w
            /\ fs[f] = orig[f]

\* C3's case: the run is over and wrote a.ts, while the files below
\* node_modules (two levels down), .git and .next, all with an allowed
\* extension, each hold a pattern.
C3_Witness ==
    /\ pc = "done"
    /\ rootExists
    /\ "a.ts" \in opened_w
    /\ "node_modules/pkg/d.js" \in FilesBelowExcludedName
    /\ \A f \in FilesBelowExcludedName :
        f \notin FilesNotForRewriting /\ orig[f] \in PatternContents

\* C4 as claimed: when the run is over, every file with an allowed extension,
\* not named package.json or package-lock.json, and with no directory named
\* exactly node_modules, .git or .next on its path has been passed to
\* update_file.
C4_EveryEligibleFileProcessed ==
    (pc = "done" /\ rootExists) =>
        \A f \in AllFiles \ (FilesNotForRewriting \cup FilesBelowExcludedName) :
            f \in called

\* The files update_file is called on in a run where nothing fails
ProcessedWhenNothingFails ==
    { f \in SelectedFiles : FileDir(f) \notin SkippedDirs }

\* C5: a failure inside update_file prints one line naming the file and the
\* walk goes on to its normal end: every file a run without failures
\* processes has been processed, a failed one with exactly one error line
\* and no 'Updated:' line, every other one exactly as in a run without
\* failures (rewritten and reported when its content changes, untouched and
\* unreported otherwise).
C5_ErrorIsolation ==
    (pc = "done" /\ rootExists) =>
        /\ exit = "normal"
        /\ called = ProcessedWhenNothingFails
        /\ \A f \in ProcessedWhenNothingFails :
            IF f \in failed
            THEN Lines("Error reading", f) = 1 /\ Lines("Updated", f) = 0
            ELSE /\ Lines("Error reading", f) = 0
                 /\ fs[f] = NewContent(orig[f])
                 /\ Lines("Updated", f) =
                      (IF NewContent(orig[f]) # orig[f] THEN 1 ELSE 0)

\* C5's case: the run is over, a read or a write failed, and a file that came
\* later in the walk was rewritten.
C5_Witness ==
    /\ pc = "done"
    /\ \E i, j \in DOMAIN out :
        /\ i < j
        /\ out[i].kind = "Error reading"
        /\ out[j].kind = "Updated"
        /\ fs[out[j].file] = NewContent(orig[out[j].file])

\* C6: a file is opened for writing only if the buffer after all rules
\* differs from its content; a file holding no pattern is never opened for
\* writing, never reported as updated, and keeps its content.
C6_NoOpPreservation ==
    rootExists =>
        \A f \in AllFiles :
            /\ f \in opened_w => Rewritten[orig[f]] # orig[f]
            /\ orig[f] \notin PatternContents =>
                /\ f \notin opened_w
                /\ Lines("Updated", f) = 0
                /\ fs[f] = orig[f]

\* C6's case: update_file ran without failure on a.ts, which holds no
\* pattern, in a run that rewrote src/c.tsx.
C6_Witness ==
    /\ pc = "done"
    /\ "a.ts" \in called \ failed
    /\ orig["a.ts"] \notin PatternContents
    /\ "src/c.tsx" \in opened_w \ failed

\* C7 as claimed: when ROOT_DIR cannot be enumerated the run aborts with a
\* diagnostic.
C7_MissingRootAborts ==
    (pc = "done" /\ ~rootExists) => (exit = "abort" /\ out # <<>>)

\* C10 as claimed: a file update_file printed an error line about holds the
\* content it held before the call.
C10_FailedFileKeepsContent ==
    rootExists =>
        \A f \in AllFiles : Lines("Error reading", f) > 0 => fs[f] = orig[f]

=============================================================================
